---- MODULE Spec2Model ----
(***************************************************************************)
(* Model of SortedDict (src/SortedDict.py): an AVL-tree based mapping.     *)
(*                                                                         *)
(* Every SortedDict object is a heap cell with the six instance attributes *)
(* _k, _val, _l, _r, _h, _n.  The heap is a sequence of cells, an object   *)
(* reference is an index into it, and the map the client holds is the      *)
(* object at index Root.  The recursive methods are RECURSIVE operators on *)
(* a machine record that carries the heap, the pending exception and the   *)
(* count of _rotate calls.                                                 *)
(*                                                                         *)
(* The wrapper of smart_args (src/SmartArgs.py) is modelled next to it: one *)
(* call of a wrapped function, the loop over its keyword defaults taken one *)
(* iteration at a time.                                                    *)
(***************************************************************************)
EXTENDS Integers, Sequences, FiniteSets, TLC

\* ---------------------------------------------------------------- bounds
MaxKey == 4        \* keys are 1..MaxKey
MaxVal == 2        \* values are 1..MaxVal
MaxLoop == 3       \* iterations of the while loop of _rebalance that are followed
MaxPairs == 3      \* longest pair list handed to the constructor
MaxAlien == 2      \* the keys -1..-MaxAlien are the keys of another type
AscKeys == 5       \* keys of the ascending insertion scenario
ShapeKeys == 6     \* keys of the client that stores one value only
WideKeys == 9      \* keys of the client that only inserts
MaxParams == 2     \* keyword-only parameters of a function wrapped by smart_args
IterKeys == 4      \* keys of the client that holds an iterator while it changes the map
MaxEdits == 1      \* sets and deletes that client makes while its iterator is running

\* ------------------------------------------------------ program constants
Sentinel == 0      \* SortedDict._sentinel: the key of an empty node
None == 0          \* Python's None (for _val, _l, _r)
Root == 1          \* the object the client holds

Keys == 1..MaxKey
AlienKeys == {-c : c \in 1..MaxAlien}
Vals == 1..MaxVal

Max(a, b) == IF a >= b THEN a ELSE b
Abs(a) == IF a < 0 THEN -a ELSE a

\* Python's rich comparison of two keys.  A key k > 0 stands for a key such as the
\* tuple (k, 0) and a key -c for one such as (c, ''): the keys are ordered by their
\* first component, == is never an error, and < or > between k and -k compares 0
\* with '' and raises TypeError.
Rank(k) == Abs(k)
Comparable(a, b) == a = b \/ Rank(a) # Rank(b)
Gt(a, b) == Rank(a) > Rank(b)
Lt(a, b) == Rank(a) < Rank(b)

\* SortedDict.__init__ without constructor argument: the attributes of a new object
EmptyNode == [k |-> Sentinel, val |-> None, l |-> None, r |-> None, h |-> 0, n |-> 0]

\* the machine at the start of a call: heap, no exception, no rotation yet
Machine(H) ==
  [H |-> H, exc |-> "none", rot |-> 0, maxr |-> 0, div |-> FALSE,
   kept |-> TRUE, fit |-> TRUE]

\* __len__ returning the height instead of the size
LenOfHeight(H, s) == H[s].h

\* SortedDict.__len__
LenOf(H, s) == H[s].n

\* truth value of a reference: None is false, an object is true iff len() # 0
Bool(H, s) == s # None /\ LenOf(H, s) # 0

\* SortedDict._balance
Balance(H, s) == IF Bool(H, H[s].l) THEN H[H[s].l].h - H[H[s].r].h ELSE 0

\* the last two lines of SortedDict._update: the measures of `self` from its children's
UpdateSelf(H, s) ==
  [H EXCEPT ![s].h = Max(H[H[s].l].h, H[H[s].r].h) + 1,
            ![s].n = H[H[s].l].n + H[H[s].r].n + 1]

RECURSIVE Update(_, _, _)

\* _update that never descends into the children, whatever `full` says
UpdateShallow(H, s, full) ==
  IF H[s].k = Sentinel THEN [H EXCEPT ![s].h = 0, ![s].n = 0] ELSE UpdateSelf(H, s)

\* a full _update that leaves out the left child
UpdateLeftSkipped(H, s, full) == H

\* SortedDict._update, `if full:` part: self._l._update(), then self._r._update()
UpdateLeft(H, s, full) ==
  IF full /\ H[s].l # None THEN Update(H, H[s].l, TRUE) ELSE H

UpdateRight(H, s, full) ==
  IF full /\ H[s].r # None THEN Update(H, H[s].r, TRUE) ELSE H

\* SortedDict._update
Update(H, s, full) ==
  IF H[s].k = Sentinel
  THEN [H EXCEPT ![s].h = 0, ![s].n = 0]
  ELSE UpdateSelf(UpdateRight(UpdateLeft(H, s, full), s, full), s)

\* attribute assignments, the target object read when the assignment is made:
\* self.f = x, self._l.f = x, self._r.f = x
PutS(H, s, f, x) == [H EXCEPT ![s][f] = x]
PutL(H, s, f, x) == [H EXCEPT ![H[s].l][f] = x]
PutR(H, s, f, x) == [H EXCEPT ![H[s].r][f] = x]

\* SortedDict._rotate, its local variables (the first four lines)
Locals(H, s) ==
  [s_k |-> H[s].k, s_val |-> H[s].val,
   l_k |-> H[H[s].l].k, l_val |-> H[H[s].l].val,
   r_k |-> H[H[s].r].k, r_val |-> H[H[s].r].val,
   ll |-> H[H[s].l].l, lr |-> H[H[s].l].r,
   rl |-> H[H[s].r].l, rr |-> H[H[s].r].r]

\* a left rotation that leaves out `self._l._k, self._l._val = s_k, s_val`
RotateLeftNoSwap(H, s, t, v) ==
  PutS(PutS(
  PutS(PutL(PutL(
  PutS(PutS(PutS(PutS(H, t, "k", v.l_k), t, "val", v.l_val), t, "l", v.ll), t, "r", v.lr),
       s, "l", t), s, "r", v.rl), s, "r", v.rr),
       s, "k", v.r_k), s, "val", v.r_val)

\* SortedDict._rotate, `if left:` branch; t is the new object, v the locals
RotateLeft(H, s, t, v) ==
  PutS(PutS(
  PutL(PutL(
  PutS(PutL(PutL(
  PutS(PutS(PutS(PutS(H, t, "k", v.l_k), t, "val", v.l_val), t, "l", v.ll), t, "r", v.lr),
       s, "l", t), s, "r", v.rl), s, "r", v.rr),
       s, "k", v.s_k), s, "val", v.s_val),
       s, "k", v.r_k), s, "val", v.r_val)

\* SortedDict._rotate, `else:` branch
RotateRight(H, s, t, v) ==
  PutS(PutS(
  PutR(PutR(
  PutS(PutR(PutR(
  PutS(PutS(PutS(PutS(H, t, "k", v.r_k), t, "val", v.r_val), t, "l", v.rl), t, "r", v.rr),
       s, "r", t), s, "l", v.lr), s, "l", v.ll),
       s, "k", v.s_k), s, "val", v.s_val),
       s, "k", v.l_k), s, "val", v.l_val)

\* SortedDict._rotate: the heap it leaves
Rotated(H, s, left) ==
  Update(IF left
         THEN RotateLeft(Append(H, EmptyNode), s, Len(H) + 1, Locals(H, s))
         ELSE RotateRight(Append(H, EmptyNode), s, Len(H) + 1, Locals(H, s)),
         s, TRUE)

\* the (key, value) pairs below s in key order: left subtree, node, right subtree
RECURSIVE Pairs(_, _)
Pairs(H, s) ==
  IF s = None \/ H[s].k = Sentinel THEN <<>>
  ELSE Pairs(H, H[s].l) \o <<(<<H[s].k, H[s].val>>)>> \o Pairs(H, H[s].r)

\* the objects reachable from x
RECURSIVE Below(_, _)
Below(H, x) ==
  IF x = None THEN {} ELSE {x} \cup Below(H, H[x].l) \cup Below(H, H[x].r)

\* height and size of x are the ones its children give
Fresh(H, x) ==
  /\ H[x].h = 1 + Max(H[H[x].l].h, H[H[x].r].h)
  /\ H[x].n = 1 + H[H[x].l].n + H[H[x].r].n

\* what a rotation at s that turned heap H0 into H1 has kept: the pairs below s in
\* order, the size of s, every object of the four subtrees handed over, and fresh
\* measures in s and in the node moved down
Keeps(H0, H1, s, left) ==
  /\ Pairs(H1, s) = Pairs(H0, s)
  /\ H1[s].n = H0[s].n
  /\ Fresh(H1, s)
  /\ Fresh(H1, IF left THEN H1[s].l ELSE H1[s].r)
  /\ \A c \in {H0[s].l, H0[s].r} : \A g \in {H0[c].l, H0[c].r} :
       \A x \in Below(H0, g) : H1[x] = H0[x]

\* a rotation at s is in place: the child that moves up is not empty by either
\* test, and the key that s receives is not the sentinel
Fits(H0, H1, s, left) ==
  /\ H0[IF left THEN H0[s].r ELSE H0[s].l].k # Sentinel
  /\ Bool(H0, IF left THEN H0[s].r ELSE H0[s].l)
  /\ H1[s].k # Sentinel /\ H1[s].n > 0

\* the machine after a _rotate call at s that left heap H1
Judged(m, s, left, H1) ==
  [m EXCEPT !.H = H1, !.rot = m.rot + 1,
            !.kept = m.kept /\ Keeps(m.H, H1, s, left),
            !.fit = m.fit /\ Fits(m.H, H1, s, left)]

\* SortedDict._rotate
Rotate(m, s, left) == Judged(m, s, left, Rotated(m.H, s, left))

\* SortedDict._rebalance, loop body: if self._balance > 1: ...
LeftHeavy(m, s) ==
  IF Balance(m.H, s) > 1
  THEN Rotate(IF Balance(m.H, m.H[s].l) < 0 THEN Rotate(m, m.H[s].l, TRUE) ELSE m, s, FALSE)
  ELSE m

\* a loop body that leaves a right-heavy node as it is
RightHeavyIdle(m, s) == m

\* SortedDict._rebalance, loop body: if self._balance < -1: ...
RightHeavy(m, s) ==
  IF Balance(m.H, s) < -1
  THEN Rotate(IF Balance(m.H, m.H[s].r) > 0 THEN Rotate(m, m.H[s].r, FALSE) ELSE m, s, TRUE)
  ELSE m

\* one pass through the body of the while loop of SortedDict._rebalance
RebalanceBody(m, s) == RightHeavy(LeftHeavy(m, s), s)

\* the while loop of SortedDict._rebalance; div records that the loop was
\* still running after MaxLoop passes
RECURSIVE RebalanceLoop(_, _, _)
RebalanceLoop(m, s, fuel) ==
  IF Abs(Balance(m.H, s)) > 1
  THEN IF fuel = 0 THEN [m EXCEPT !.div = TRUE]
       ELSE RebalanceLoop(RebalanceBody(m, s), s, fuel - 1)
  ELSE m

\* the most _rotate calls one _rebalance call has made: m0 at its start, m at its end
Tally(m0, m) == [m EXCEPT !.maxr = Max(m0.maxr, m.rot - m0.rot)]

\* SortedDict._rebalance
Rebalance(m, s) ==
  Tally(m, RebalanceLoop([m EXCEPT !.H = Update(m.H, s, FALSE)], s, MaxLoop))

\* the equal-key branch of __setitem__ leaving the old value in place
OverwriteKept(H, s, val) == H

\* the equal-key branch of SortedDict.__setitem__: self._val = val
Overwritten(H, s, val) == [H EXCEPT ![s].val = val]

\* a leaf whose two children are one and the same new object
LeafShared(H, s, k, val) ==
  [Append(H, EmptyNode)
     EXCEPT ![s].k = k, ![s].val = val, ![s].l = Len(H) + 1, ![s].r = Len(H) + 1]

\* the empty-node branch of SortedDict.__setitem__: the node becomes a leaf
\* with two new empty children
Leaf(H, s, k, val) ==
  [Append(Append(H, EmptyNode), EmptyNode)
     EXCEPT ![s].k = k, ![s].val = val, ![s].l = Len(H) + 1, ![s].r = Len(H) + 2]

\* a comparison that stores the value in the node before it raises
ClashStored(m, s, val) == [m EXCEPT !.H = Overwritten(m.H, s, val), !.exc = "TypeError"]

\* `k > self._k` or `k < self._k` raising TypeError at node s: nothing is assigned
Clash(m, s, val) == [m EXCEPT !.exc = "TypeError"]

\* self._rebalance() after a recursive call, skipped when the call raised
Unwind(m, s) == IF m.exc # "none" THEN m ELSE Rebalance(m, s)

\* SortedDict.__setitem__
RECURSIVE SetItem(_, _, _, _)
SetItem(m, s, k, val) ==
  IF Bool(m.H, s) /\ ~Comparable(k, m.H[s].k) THEN Clash(m, s, val)
  ELSE Unwind(IF ~Bool(m.H, s) THEN [m EXCEPT !.H = Leaf(m.H, s, k, val)]
              ELSE IF Gt(k, m.H[s].k) THEN SetItem(m, m.H[s].r, k, val)
              ELSE IF Lt(k, m.H[s].k) THEN SetItem(m, m.H[s].l, k, val)
              ELSE [m EXCEPT !.H = Overwritten(m.H, s, val)],
              s)

RECURSIVE GetItem(_, _, _)

\* __getitem__ descending to the wrong side
GetItemSwapped(H, s, k) ==
  IF ~Bool(H, s) THEN <<"KeyError">>
  ELSE IF H[s].k = k THEN <<"ok", H[s].val>>
  ELSE IF ~Comparable(k, H[s].k) THEN <<"TypeError">>
  ELSE IF Gt(k, H[s].k) THEN GetItem(H, H[s].l, k)
  ELSE GetItem(H, H[s].r, k)

\* __getitem__ returning None at an empty node instead of raising
GetItemNone(H, s, k) ==
  IF ~Bool(H, s) THEN <<"ok", None>>
  ELSE IF H[s].k = k THEN <<"ok", H[s].val>>
  ELSE IF ~Comparable(k, H[s].k) THEN <<"TypeError">>
  ELSE IF Gt(k, H[s].k) THEN GetItem(H, H[s].r, k)
  ELSE GetItem(H, H[s].l, k)

\* SortedDict.__getitem__: <<"KeyError">>, <<"TypeError">> or <<"ok", value>>
GetItem(H, s, k) ==
  IF ~Bool(H, s) THEN <<"KeyError">>
  ELSE IF H[s].k = k THEN <<"ok", H[s].val>>
  ELSE IF ~Comparable(k, H[s].k) THEN <<"TypeError">>
  ELSE IF Gt(k, H[s].k) THEN GetItem(H, H[s].r, k)
  ELSE GetItem(H, H[s].l, k)

\* a successor search that stops at the right child
LeftmostStay(H, x) == x

\* the successor search of SortedDict.__delitem__: while next_._l: next_ = next_._l
RECURSIVE Leftmost(_, _)
Leftmost(H, x) == IF Bool(H, H[x].l) THEN Leftmost(H, H[x].l) ELSE x

\* SortedDict.__delitem__: only = self._l if not self._r else self._r if not self._l else None
Only(H, s) ==
  IF ~Bool(H, H[s].r) THEN H[s].l ELSE IF ~Bool(H, H[s].l) THEN H[s].r ELSE None

\* SortedDict.__delitem__: self.__dict__.update(only.__dict__)
Adopt(H, s, only) == [H EXCEPT ![s] = H[only]]

\* SortedDict.__delitem__: self._k, self._val = next_._k, next_._val
Promote(H, s, next) == [H EXCEPT ![s].k = H[next].k, ![s].val = H[next].val]

\* a delete that returns at an empty node without raising
MissingQuiet(m) == m

\* SortedDict.__delitem__: if not self: raise KeyError
Missing(m) == [m EXCEPT !.exc = "KeyError"]

\* SortedDict.__delitem__
RECURSIVE DelItem(_, _, _)
DelItem(m, s, k) ==
  IF ~Bool(m.H, s) THEN Missing(m)
  ELSE IF k = m.H[s].k
  THEN IF Only(m.H, s) # None
       THEN Rebalance([m EXCEPT !.H = Adopt(m.H, s, Only(m.H, s))], s)
       ELSE Unwind(DelItem([m EXCEPT !.H = Promote(m.H, s, Leftmost(m.H, m.H[s].r))],
                           m.H[s].r, m.H[Leftmost(m.H, m.H[s].r)].k), s)
  ELSE IF ~Comparable(k, m.H[s].k) THEN Clash(m, s, None)
  ELSE Unwind(DelItem(m, IF Lt(k, m.H[s].k) THEN m.H[s].l ELSE m.H[s].r, k), s)

RECURSIVE Iter(_, _)

\* __iter__ yielding the node's key before its left subtree
IterPreOrder(H, s) ==
  IF Bool(H, s) THEN <<H[s].k>> \o Iter(H, H[s].l) \o Iter(H, H[s].r) ELSE <<>>

\* __iter__ yielding the right subtree first
IterDescending(H, s) ==
  IF Bool(H, s) THEN Iter(H, H[s].r) \o <<H[s].k>> \o Iter(H, H[s].l) ELSE <<>>

\* SortedDict.__iter__: the keys in the order they are yielded
Iter(H, s) ==
  IF Bool(H, s) THEN Iter(H, H[s].l) \o <<H[s].k>> \o Iter(H, H[s].r) ELSE <<>>

\* The generator SortedDict.__iter__ returns, between two next() calls: the stack of
\* its frames, the frame of the client's object first and the running frame last.
\* A frame holds self and where it stands: "start" before its first line, "left"
\* inside `yield from iter(self._l)`, "yielded" at `yield self._k`, "right" inside
\* `yield from iter(self._r)`.
Frame(x, pc) == [self |-> x, pc |-> pc]

\* the frames without the running one
Outer(fr) == SubSeq(fr, 1, Len(fr) - 1)

\* the running frame moves to pc and delegates to a new generator for object x:
\* iter(x), which raises TypeError when x is None
RECURSIVE Resume(_, _)
Delegate(H, fr, pc, x) ==
  IF x = None THEN <<"TypeError">>
  ELSE Resume(H, Outer(fr) \o <<Frame(fr[Len(fr)].self, pc), Frame(x, "start")>>)

\* next() on the generator with frames fr: runs the frames up to the next yield.
\* <<"yield", key, frames>>, <<"StopIteration">> or <<"TypeError">>
Resume(H, fr) ==
  IF fr = <<>> THEN <<"StopIteration">>
  ELSE IF fr[Len(fr)].pc = "start"
  THEN IF Bool(H, fr[Len(fr)].self)
       THEN Delegate(H, fr, "left", H[fr[Len(fr)].self].l)
       ELSE Resume(H, Outer(fr))
  ELSE IF fr[Len(fr)].pc = "left"
  THEN <<"yield", H[fr[Len(fr)].self].k, Outer(fr) \o <<Frame(fr[Len(fr)].self, "yielded")>>>>
  ELSE IF fr[Len(fr)].pc = "yielded"
  THEN Delegate(H, fr, "right", H[fr[Len(fr)].self].r)
  ELSE Resume(H, Outer(fr))

\* list(iterator): next() until it raises; <<exception or "none", the keys yielded>>
RECURSIVE Drain(_, _, _)
Drained(H, r, out) ==
  IF r[1] = "yield" THEN Drain(H, r[3], Append(out, r[2]))
  ELSE <<IF r[1] = "StopIteration" THEN "none" ELSE r[1], out>>

Drain(H, fr, out) == Drained(H, Resume(H, fr), out)

\* Mapping.__contains__: try: self[key] / except KeyError: return False / else:
\* return True; g is what self[key] gave, any other exception goes on to the caller
Caught(g) ==
  IF g[1] = "KeyError" THEN <<"ok", FALSE>>
  ELSE IF g[1] = "ok" THEN <<"ok", TRUE>>
  ELSE g

\* SortedDict.__contains__ (Mapping.__contains__): <<"ok", TRUE>>, <<"ok", FALSE>> or
\* <<"TypeError">>
Contains(H, s, k) == Caught(GetItem(H, s, k))

\* Mapping.items(): the pairs (key, self[key]) for the keys of __iter__
Items(H, s) ==
  LET ks == Iter(H, s)
  IN  [i \in 1..Len(ks) |-> <<ks[i], GetItem(H, s, ks[i])[2]>>]

\* MutableMapping.update with an iterable of pairs, as SortedDict.__init__ calls it:
\* for key, value in other: self[key] = value; an exception of self[key] = value
\* leaves the loop
RECURSIVE UpdateFrom(_, _, _)
UpdateFrom(m, s, pairs) ==
  IF pairs = <<>> \/ m.exc # "none" THEN m
  ELSE UpdateFrom(SetItem(m, s, pairs[1][1], pairs[1][2]), s, Tail(pairs))

\* SortedDict(pairs) next to the objects of H: a new object, then update(pairs)
NewIn(H, pairs) == UpdateFrom(Machine(Append(H, EmptyNode)), Len(H) + 1, pairs)

\* SortedDict.__init__ with a constructor argument, on a heap of its own
NewFrom(pairs) == NewIn(<<>>, pairs)

\* the objects reachable from s, parents before children, left before right
RECURSIVE PreOrder(_, _, _)
PreOrder(H, s, fuel) ==
  IF s = None \/ fuel = 0 THEN <<>>
  ELSE <<s>> \o PreOrder(H, H[s].l, fuel - 1) \o PreOrder(H, H[s].r, fuel - 1)

\* the first occurrences of the elements of q, in order
RECURSIVE Dedupe(_)
Dedupe(q) ==
  IF Cardinality({q[i] : i \in 1..Len(q)}) = Len(q) THEN q
  ELSE LET d == Dedupe(SubSeq(q, 1, Len(q) - 1))
           x == q[Len(q)]
       IN  IF \E i \in 1..Len(d) : d[i] = x THEN d ELSE Append(d, x)

\* the objects the client can reach: those of its map r and those the frames of
\* its iterator hold
Roots(r, fr) == <<r>> \o [i \in 1..Len(fr) |-> fr[i].self]

RECURSIVE Reach(_, _)
Reach(H, roots) ==
  IF roots = <<>> THEN <<>>
  ELSE PreOrder(H, Head(roots), Len(H)) \o Reach(H, Tail(roots))

\* the live objects in the order of their new names
Live(H, roots) == Dedupe(Reach(H, roots))

\* the new name of object x
Place(ord, x) == IF x = None THEN None ELSE CHOOSE i \in 1..Len(ord) : ord[i] = x

\* the heap of the objects of ord, under their new names
CompactBy(H, ord) ==
  [i \in 1..Len(ord) |-> [H[ord[i]] EXCEPT !.l = Place(ord, @), !.r = Place(ord, @)]]

\* the frames of the iterator under the new names
Moved(fr, ord) == [i \in 1..Len(fr) |-> [fr[i] EXCEPT !.self = Place(ord, @)]]

\* Objects no reference leads to are freed, and the remaining ones are named by
\* their position in PreOrder: object identity is kept, addresses are not.
Compact(H) == CompactBy(H, Live(H, <<Root>>))

\* -------------------------------------------------------------- the state
VARIABLES
  heap,   \* the objects of the client's map; the map is heap[Root]
  ref,    \* the reference map: the set of pairs <<k, v>> an abstract map would hold
  last,   \* the most recent call: its arguments, outcome and what it saw before
  call,   \* one call of a function wrapped by smart_args
  it      \* the iterator the client holds: it = iter(d)

vars == <<heap, ref, last, call, it>>

\* the client holds no iterator
NoIter == [st |-> "none", frames |-> <<>>, out |-> <<>>, clean |-> TRUE, edits |-> 0]

\* no wrapped function is being called
NoCall == [defs |-> <<>>, passed |-> <<>>, kwargs |-> <<>>, i |-> 1, st |-> "none"]

RefKeys == {p[1] : p \in ref}
RefSet(k, v) == {p \in ref : p[1] # k} \cup {<<k, v>>}
RefDel(k) == {p \in ref : p[1] # k}

RECURSIVE RefOf(_)
RefOf(pairs) ==
  IF pairs = <<>> THEN {}
  ELSE LET p == pairs[Len(pairs)]
       IN  {q \in RefOf(SubSeq(pairs, 1, Len(pairs) - 1)) : q[1] # p[1]} \cup {p}

Call(op, k, v, m, ret) ==
  [op |-> op, k |-> k, v |-> v, exc |-> m.exc, ret |-> ret,
   rot |-> m.rot, maxr |-> m.maxr, div |-> m.div, kept |-> m.kept, fit |-> m.fit,
   n0 |-> LenOf(heap, Root), had |-> k \in RefKeys, dup |-> FALSE]

RECURSIVE SeqsUpTo(_, _)
SeqsUpTo(S, n) ==
  IF n = 0 THEN {<<>>}
  ELSE LET T == SeqsUpTo(S, n - 1)
       IN  T \cup {Append(q, x) : q \in {t \in T : Len(t) = n - 1}, x \in S}

PairLists == SeqsUpTo(Keys \X Vals, MaxPairs)

\* a pair list that names some key twice
HasDup(pairs) == \E i, j \in 1..Len(pairs) : i < j /\ pairs[i][1] = pairs[j][1]

\* the state a constructor call that ended in machine state m leaves
Built(pairs, m) ==
  /\ heap = Compact(m.H)
  /\ ref = RefOf(pairs)
  /\ last = [op |-> "from", k |-> 0, v |-> 0, exc |-> m.exc, ret |-> 0,
             rot |-> m.rot, maxr |-> m.maxr, div |-> m.div,
             kept |-> m.kept, fit |-> m.fit,
             n0 |-> 0, had |-> FALSE, dup |-> HasDup(pairs)]
  /\ call = NoCall
  /\ it = NoIter

\* the state after construction: d = SortedDict(pairs), where the empty list
\* gives the map SortedDict() gives
Init == \E pairs \in PairLists : Built(pairs, NewFrom(pairs))

\* the end of a call that ended in machine state m with the live objects ord: the
\* others are freed, the call is recorded, and an iterator the client holds has
\* seen one more call that may change the map
Settled(op, k, v, m, ret, ord) ==
  /\ heap' = CompactBy(m.H, ord)
  /\ it' = IF it.st = "none" THEN it
           ELSE [it EXCEPT !.frames = Moved(it.frames, ord), !.clean = FALSE,
                           !.edits = @ + 1]
  /\ last' = Call(op, k, v, m, ret)
  /\ UNCHANGED call

\* the end of a call on the client's map that ended in machine state m
Return(op, k, v, m, ret) == Settled(op, k, v, m, ret, Live(m.H, Roots(Root, it.frames)))

\* the end of a call that only reads
Answer(op, k, exc, ret) ==
  /\ last' = Call(op, k, 0, [Machine(heap) EXCEPT !.exc = exc], ret)
  /\ UNCHANGED <<heap, ref, call, it>>

\* d[k] = v ending in machine state m
Stored(k, v, m) ==
  /\ Return("set", k, v, m, 0)
  /\ ref' = IF m.exc = "none" THEN RefSet(k, v) ELSE ref

\* d[k] = v
Set(k, v) == Stored(k, v, SetItem(Machine(heap), Root, k, v))

\* del d[k]
Delete(k) ==
  /\ Return("del", k, 0, DelItem(Machine(heap), Root, k), 0)
  /\ ref' = IF k \in RefKeys THEN RefDel(k) ELSE ref

\* d[k]: the value, or KeyError
Got(k, g) ==
  Answer("get", k, IF g[1] = "ok" THEN "none" ELSE g[1], IF g[1] = "ok" THEN g[2] ELSE 0)

Get(k) == Got(k, GetItem(heap, Root, k))

\* k in d: True or False, or the TypeError of the lookup
Inside(k, c) ==
  Answer("in", k, IF c[1] = "ok" THEN "none" ELSE c[1], IF c[1] = "ok" THEN c[2] ELSE FALSE)

In(k) == Inside(k, Contains(heap, Root, k))

\* list(d): a generator of its own, run to its end
Listed(g) == Answer("iter", 0, g[1], g[2])

Iterate == Listed(Drain(heap, <<Frame(Root, "start")>>, <<>>))

\* the state after a call on the iterator that left the frames fr: the objects only
\* the frames that are gone held are freed
Held(st, fr, out, ord) ==
  /\ heap' = CompactBy(heap, ord)
  /\ it' = [it EXCEPT !.st = st, !.frames = Moved(fr, ord), !.out = out]
  /\ UNCHANGED <<ref, call>>

\* it = iter(d): a new generator, nothing of it run yet
Open ==
  /\ it' = [st |-> "open", frames |-> <<Frame(Root, "start")>>, out |-> <<>>,
            clean |-> TRUE, edits |-> 0]
  /\ heap' = Compact(heap)
  /\ last' = Call("open", 0, 0, Machine(heap), 0)
  /\ UNCHANGED <<ref, call>>

\* next(it) that gave r: a key, StopIteration at the end, or the TypeError of
\* iter(None), after which the generator is finished
Advanced(r) ==
  IF r[1] = "yield"
  THEN /\ Held("open", r[3], Append(it.out, r[2]), Live(heap, Roots(Root, r[3])))
       /\ last' = Call("next", 0, 0, Machine(heap), r[2])
  ELSE /\ Held(IF r[1] = "StopIteration" THEN "done" ELSE "dead", <<>>, it.out,
               Live(heap, <<Root>>))
       /\ last' = Call("next", 0, 0, [Machine(heap) EXCEPT !.exc = r[1]], 0)

\* next(it)
Advance ==
  /\ it.st # "none"
  /\ Advanced(Resume(heap, it.frames))

\* del it: the generator goes, and with it the objects only its frames referred to
Close ==
  /\ it.st # "none"
  /\ it' = NoIter
  /\ heap' = Compact(heap)
  /\ last' = Call("close", 0, 0, Machine(heap), 0)
  /\ UNCHANGED <<ref, call>>

\* len(d)
Length == Answer("len", 0, "none", LenOf(heap, Root))

\* d = ... ending in machine state m: the name d goes to object r
Rebound(m, r) ==
  /\ Settled("copy", 0, 0, m, 0, Live(m.H, Roots(r, it.frames)))
  /\ UNCHANGED ref

\* d = SortedDict(d.items())
Rebuild == Rebound(NewIn(heap, Items(heap, Root)), Len(heap) + 1)

\* a client that changes the map
Next ==
  \/ \E k \in Keys, v \in Vals : Set(k, v)
  \/ \E k \in Keys : Delete(k)
  \/ Rebuild

Spec == Init /\ [][Next]_vars

\* the state after d = SortedDict()
InitEmpty ==
  /\ heap = <<EmptyNode>>
  /\ ref = {}
  /\ last = [op |-> "from", k |-> 0, v |-> 0, exc |-> "none", ret |-> 0,
             rot |-> 0, maxr |-> 0, div |-> FALSE, kept |-> TRUE, fit |-> TRUE,
             n0 |-> 0, had |-> FALSE, dup |-> FALSE]
  /\ call = NoCall
  /\ it = NoIter

\* the ascending insertion: keys 1, 2, ..., AscKeys one at a time into an empty map,
\* queried on the way
SetAsc(v) ==
  /\ LenOf(heap, Root) < AscKeys
  /\ Set(LenOf(heap, Root) + 1, v)

NextAsc ==
  \/ \E v \in Vals : SetAsc(v)
  \/ \E k \in 1..AscKeys : Get(k)
  \/ \E k \in 1..AscKeys : In(k)
  \/ Iterate
  \/ Length

SpecAsc == InitEmpty /\ [][NextAsc]_vars

\* a client that stores the same value under every key: the shapes of the tree over
\* more keys
NextShape ==
  \/ \E k \in 1..ShapeKeys : Set(k, MaxVal)
  \/ \E k \in 1..ShapeKeys : Delete(k)

SpecShape == InitEmpty /\ [][NextShape]_vars

\* the same client, also querying the map
NextRead ==
  \/ \E k \in 1..ShapeKeys : Set(k, MaxVal)
  \/ \E k \in 1..ShapeKeys : Delete(k)
  \/ \E k \in 1..ShapeKeys : Get(k)
  \/ \E k \in 1..ShapeKeys : In(k)

SpecRead == InitEmpty /\ [][NextRead]_vars

\* a client that stores one value under the keys 1..MaxKey and also uses keys of
\* another type
NextType ==
  \/ \E k \in Keys : Set(k, MaxVal)
  \/ \E k \in AlienKeys, v \in Vals : Set(k, v)
  \/ \E k \in Keys \cup AlienKeys : Delete(k)
  \/ \E k \in Keys \cup AlienKeys : Get(k)
  \/ \E k \in Keys \cup AlienKeys : In(k)

SpecType == InitEmpty /\ [][NextType]_vars

\* a client that changes the map while it holds no iterator, and at most MaxEdits
\* times while an iterator over the map is running
Editing == it.st = "none" \/ (it.st = "open" /\ it.edits < MaxEdits)

NextIter ==
  \/ \E k \in 1..IterKeys : Editing /\ Set(k, MaxVal)
  \/ \E k \in 1..IterKeys : Editing /\ Delete(k)
  \/ Open
  \/ Advance
  \/ Close
  \/ Iterate

SpecIter == InitEmpty /\ [][NextIter]_vars

\* a client that only sets, one value, over still more keys
NextWide == \E k \in 1..WideKeys : Set(k, MaxVal)

SpecWide == InitEmpty /\ [][NextWide]_vars

\* ------------------------------------------------- smart_args (SmartArgs.py)
\* The objects the wrapper meets, by name: "obj" an ordinary value, "Isolated" the
\* class, "Isolated()" an instance of it, "f" a function without arguments, "f()"
\* what it returns, "deepcopy(obj)" a deep copy of an ordinary value.

\* the default values of keyword-only parameters: an ordinary value, Isolated(),
\* Evaluated(f), Evaluated(Isolated), Evaluated(Isolated())
Defaults ==
  {[type |-> "object", evaluate |-> "none"], [type |-> "Isolated", evaluate |-> "none"]}
    \cup {[type |-> "Evaluated", evaluate |-> e] : e \in {"f", "Isolated", "Isolated()"}}

\* isinstance(x, Isolated) for the objects above
IsIsolated(x) == x = "Isolated()"

\* def_kwarg.evaluate(): a call of the class makes an instance
Evaluate(e) == IF e = "Isolated" THEN "Isolated()" ELSE "f()"

\* the body of the loop of wrapper for the i-th keyword default
Tweaked(c, i) ==
  IF c.defs[i].type = "Isolated"
  THEN IF c.kwargs[i] = "absent" THEN [c EXCEPT !.st = "KeyError"]
       ELSE [c EXCEPT !.kwargs[i] = "deepcopy(obj)", !.i = i + 1]
  ELSE IF c.kwargs[i] = "absent" /\ c.defs[i].type = "Evaluated"
  THEN IF IsIsolated(c.defs[i].evaluate) THEN [c EXCEPT !.st = "AssertionError"]
       ELSE [c EXCEPT !.kwargs[i] = Evaluate(c.defs[i].evaluate), !.i = i + 1]
  ELSE [c EXCEPT !.i = i + 1]

\* wrapper: one iteration of `for key, def_kwarg in func.__kwdefaults__.items()`
Tweak ==
  /\ call.st = "loop" /\ call.i <= Len(call.defs)
  /\ call' = Tweaked(call, call.i)
  /\ UNCHANGED <<heap, ref, last, it>>

\* wrapper: return func(*args, **kwargs)
Invoke ==
  /\ call.st = "loop" /\ call.i > Len(call.defs)
  /\ call' = [call EXCEPT !.st = "called"]
  /\ UNCHANGED <<heap, ref, last, it>>

\* a call of a wrapped function with n keyword-only parameters, defaults d, of which
\* the caller passes those of p
Entered(n, d, p) ==
  call = [defs |-> d, passed |-> p, i |-> 1, st |-> "loop",
          kwargs |-> [j \in 1..n |-> IF p[j] THEN "obj" ELSE "absent"]]

InitArgs ==
  /\ heap = <<EmptyNode>> /\ ref = {} /\ it = NoIter
  /\ last = [op |-> "from", k |-> 0, v |-> 0, exc |-> "none", ret |-> 0,
             rot |-> 0, maxr |-> 0, div |-> FALSE, kept |-> TRUE, fit |-> TRUE,
             n0 |-> 0, had |-> FALSE, dup |-> FALSE]
  /\ \E n \in 1..MaxParams :
       \E d \in [1..n -> Defaults], p \in [1..n -> BOOLEAN] : Entered(n, d, p)

NextArgs == Tweak \/ Invoke

SpecArgs == InitArgs /\ [][NextArgs]_vars

\* ------------------------------------------------------------ the claims
\* what the claims speak of, computed from scratch from keys and child references
Nodes == 1..Len(heap)
NonEmpty(s) == s # None /\ heap[s].k # Sentinel

RECURSIVE TrueHeight(_)
TrueHeight(s) ==
  IF NonEmpty(s) THEN 1 + Max(TrueHeight(heap[s].l), TrueHeight(heap[s].r)) ELSE 0

RECURSIVE TrueSize(_)
TrueSize(s) ==
  IF NonEmpty(s) THEN 1 + TrueSize(heap[s].l) + TrueSize(heap[s].r) ELSE 0

RECURSIVE KeysOf(_)
KeysOf(s) ==
  IF NonEmpty(s) THEN KeysOf(heap[s].l) \cup {heap[s].k} \cup KeysOf(heap[s].r) ELSE {}

RefVal(k) == (CHOOSE p \in ref : p[1] = k)[2]

\* the pairs of the reference map in ascending key order
RECURSIVE SortedPairs(_)
SortedPairs(S) ==
  IF S = {} THEN <<>>
  ELSE LET p == CHOOSE q \in S : \A o \in S : q[1] <= o[1]
       IN  <<p>> \o SortedPairs(S \ {p})

Served == last.op \in {"set", "del"} /\ last.exc = "none"

\* C1: after every set and delete, every non-empty node has subtrees whose true
\* heights differ by at most one.
AVLBalance ==
  \A s \in Nodes :
    NonEmpty(s) => Abs(TrueHeight(heap[s].l) - TrueHeight(heap[s].r)) <= 1

\* C2: after every set and delete, every key of a left subtree is smaller than the
\* node's key, every key of a right subtree is greater, and no key occurs twice.
BSTOrdering ==
  /\ \A s \in Nodes :
       NonEmpty(s) =>
         /\ \A x \in KeysOf(heap[s].l) : x < heap[s].k
         /\ \A y \in KeysOf(heap[s].r) : y > heap[s].k
  /\ Cardinality({s \in Nodes : NonEmpty(s)}) = Cardinality(KeysOf(Root))

BSTOrderingSeen ==
  /\ last.op = "del" /\ last.exc = "none" /\ last.rot > 0
  /\ TrueSize(Root) >= 3

\* C3: after every set and delete, get(k) returns the value of the reference map for
\* every key it holds and raises KeyError for every other key.
RefinesMap ==
  \A k \in Keys :
    GetItem(heap, Root, k) = IF k \in RefKeys THEN <<"ok", RefVal(k)>> ELSE <<"KeyError">>

RefinesMapSeen ==
  /\ last.op = "del" /\ last.exc = "none"
  /\ \E k \in RefKeys : RefVal(k) = MaxVal
  /\ Cardinality(RefKeys) >= 2

\* C4: iterate() yields the keys of the reference map, each once, in strictly
\* ascending order: the generator run to its end in one go yields them, and so
\* does, key by key, an iterator during which the client has not called set or
\* delete.
SortedTraversal ==
  LET ks == Iter(heap, Root)
  IN  /\ \A i \in 1..Len(ks) - 1 : ks[i] < ks[i + 1]
      /\ {ks[i] : i \in 1..Len(ks)} = RefKeys
      /\ Drain(heap, <<Frame(Root, "start")>>, <<>>) = <<"none", ks>>
      /\ it.clean => /\ it.st # "dead"
                     /\ it.out = SubSeq(ks, 1, Len(it.out))
                     /\ it.st = "done" => it.out = ks

SortedTraversalSeen ==
  /\ it.st = "done" /\ it.clean
  /\ Len(it.out) = IterKeys
  /\ heap[heap[Root].l].n > 0 /\ heap[heap[Root].r].n > 0

\* C5: len() is the number of keys of the reference map; a set of a new key raises
\* it by one, a set of a present key leaves it, a delete of a present key lowers
\* it by one.
SizeCorrect ==
  /\ LenOf(heap, Root) = Cardinality(RefKeys)
  /\ last.op = "set" /\ ~last.had => LenOf(heap, Root) = last.n0 + 1
  /\ last.op = "set" /\ last.had => LenOf(heap, Root) = last.n0
  /\ last.op = "del" /\ last.exc = "none" => LenOf(heap, Root) = last.n0 - 1

SizeCorrectSeen ==
  /\ last.op = "del" /\ last.exc = "none" /\ last.n0 = 3
  /\ heap[Root].h = 2

\* C6: in every node reachable from the root the stored height and size are the
\* ones recomputed from scratch: 1 + max of the children's heights and 1 + the sum
\* of the children's sizes in a non-empty node, 0 and 0 in an empty one.
BookkeepingFresh ==
  \A s \in Nodes :
    /\ heap[s].h = TrueHeight(s)
    /\ heap[s].n = TrueSize(s)
    /\ NonEmpty(s) =>
         /\ heap[s].h = 1 + Max(heap[heap[s].l].h, heap[heap[s].r].h)
         /\ heap[s].n = 1 + heap[heap[s].l].n + heap[heap[s].r].n
    /\ ~NonEmpty(s) => heap[s].h = 0 /\ heap[s].n = 0

BookkeepingFreshSeen ==
  /\ Served /\ last.rot > 0
  /\ heap[Root].h = 3

\* C7: the keys 1..5 set in ascending order into an empty map give a tree of
\* root height 3.
AscendingHeight ==
  Iter(heap, Root) = <<1, 2, 3, 4, 5>> => heap[Root].h = 3

\* C8: a set of a key that is present leaves one entry for it, holding the new
\* value; a map built from a pair list that names a key twice holds, for every
\* key, the value of the last pair that names it.
RECURSIVE Count(_, _)
Count(q, x) ==
  IF q = <<>> THEN 0 ELSE (IF Head(q) = x THEN 1 ELSE 0) + Count(Tail(q), x)

Overwrite ==
  /\ last.op = "set" /\ last.had =>
       /\ GetItem(heap, Root, last.k) = <<"ok", last.v>>
       /\ Count(Iter(heap, Root), last.k) = 1
  /\ last.op = "from" /\ last.dup =>
       /\ Items(heap, Root) = SortedPairs(ref)
       /\ \A k \in RefKeys : Count(Iter(heap, Root), k) = 1

OverwriteSeen ==
  /\ last.op = "set" /\ last.had
  /\ last.v = MaxVal
  /\ LenOf(heap, Root) >= 2

\* C9: for a key that is not in the map, get raises KeyError and contains returns
\* false without raising, and neither changes any object of the map.
NotFound ==
  /\ [](last.op = "get" /\ ~last.had => last.exc = "KeyError")
  /\ [](last.op = "in" /\ ~last.had => last.exc = "none" /\ last.ret = FALSE)
  /\ [][last'.op \in {"get", "in"} => heap' = heap]_vars

NotFoundSeen ==
  /\ last.op = "in" /\ ~last.had
  /\ LenOf(heap, Root) >= 3

\* C10: a map built from a pair list of distinct keys holds exactly those pairs, in
\* ascending key order; a map built from the items of a map holds the same items.
RoundTrip ==
  /\ [](last.op = "from" /\ ~last.dup => Items(heap, Root) = SortedPairs(ref))
  /\ [][last'.op = "copy" => Items(heap', Root) = Items(heap, Root)]_vars

RoundTripSeen ==
  /\ last.op = "copy"
  /\ LenOf(heap, Root) >= 3
  /\ \E p \in ref : p[2] = MaxVal

\* C11: every set and delete call comes to an end: the while loop of _rebalance
\* leaves every node of the path after finitely many passes, it is never still
\* running when the passes that are followed are used up.
Terminates == ~last.div

TerminatesSeen ==
  /\ last.op = "set" /\ last.exc = "none"
  /\ last.rot > 0 /\ ~last.div
  /\ LenOf(heap, Root) = MaxKey

\* C12: a set that fails with TypeError, because its key is not comparable with a
\* key on the search path, leaves every object of the map as it was: keys, values,
\* children, heights and sizes, and with them every invariant.
FailedSetKeeps ==
  [][last'.op = "set" /\ last'.exc = "TypeError" => heap' = heap /\ ref' = ref]_vars

FailedSetKeepsSeen ==
  /\ last.op = "set" /\ last.exc = "TypeError"
  /\ Rank(heap[Root].k) # Rank(last.k)
  /\ LenOf(heap, Root) >= 3

\* C13: a keyword-only parameter whose default is Evaluated(Isolated) and that the
\* caller does not pass makes the call raise AssertionError: the wrapped function
\* is never called for it, and never with a value made by calling Isolated.
EvaluatedIsolatedRejected ==
  call.st = "called" =>
    \A j \in 1..Len(call.defs) :
      /\ ~(call.defs[j] = [type |-> "Evaluated", evaluate |-> "Isolated"] /\ ~call.passed[j])
      /\ call.kwargs[j] # "Isolated()"

\* C14: the balance factor the rebalancing uses is height(left) - height(right) at
\* every non-empty node, also where the left child is empty and the right is not.
BalanceIsDifference ==
  \A s \in Nodes :
    NonEmpty(s) => Balance(heap, s) = heap[heap[s].l].h - heap[heap[s].r].h

\* C15: one call of _rebalance at a node makes at most one double rotation, that is
\* at most two calls of _rotate.
AtMostDoubleRotation == last.maxr <= 2

\* C16: every rotation _rebalance makes leaves the (key, value) pairs of the rotated
\* subtree in the same order and its size the same, changes no object of the
\* subtrees it hands over, and leaves correct heights and sizes in the two nodes
\* it changes.
RotationKeeps == last.kept

RotationKeepsSeen ==
  /\ Served /\ last.maxr = 2 /\ last.kept
  /\ heap[Root].h = 3

\* C17: a set of a key that is present changes the value stored for that key and
\* nothing else: no object gets another key, child, height or size, and no
\* rotation is made on the way back to the root.
OverwriteInPlace ==
  /\ [](last.op = "set" /\ last.had => last.rot = 0)
  /\ [][last'.op = "set" /\ last'.had =>
         /\ Len(heap') = Len(heap)
         /\ \A s \in 1..Len(heap) :
              heap'[s] = IF heap[s].k = last'.k THEN [heap[s] EXCEPT !.val = last'.v]
                         ELSE heap[s]]_vars

\* C18: a delete of a key that is not in the map fails with KeyError, makes no
\* rotation and leaves every object of the map as it was.
FailedDeleteKeeps ==
  /\ [](last.op = "del" /\ ~last.had => last.exc = "KeyError" /\ last.rot = 0)
  /\ [][last'.op = "del" /\ last'.exc = "KeyError" => heap' = heap /\ ref' = ref]_vars

FailedDeleteKeepsSeen ==
  /\ last.op = "del" /\ last.exc = "KeyError"
  /\ LenOf(heap, Root) >= 3 /\ heap[Root].h >= 3
  /\ Lt(heap[Root].k, last.k) /\ Lt(last.k, ShapeKeys)

\* C19: after every set and delete the objects reachable from the root form a tree:
\* both children of a non-empty node are map objects, never None, the root is
\* nobody's child and every other object is the child of exactly one node on
\* exactly one side, so nothing is shared and there is no cycle.
ExclusiveOwnership ==
  /\ \A s \in Nodes : NonEmpty(s) => heap[s].l # None /\ heap[s].r # None
  /\ \A x \in Nodes :
       Cardinality({p \in Nodes \X {"l", "r"} : heap[p[1]][p[2]] = x})
         = IF x = Root THEN 0 ELSE 1

ExclusiveOwnershipSeen ==
  /\ last.op = "del" /\ last.exc = "none" /\ last.rot > 0
  /\ Len(heap) >= 9

\* C20: the two tests for an empty node agree in every reachable object: the key is
\* the sentinel exactly when the stored size is 0, and then the stored height is 0.
\* So every rotation made finds the child it moves up non-empty, a left rotation
\* the right child and a right rotation the left child, and never puts the
\* sentinel key into a node of size above 0.
EmptinessAgrees ==
  /\ \A s \in Nodes : (heap[s].k = Sentinel) <=> (heap[s].n = 0)
  /\ \A s \in Nodes : heap[s].k = Sentinel => heap[s].h = 0
  /\ last.fit

EmptinessAgreesSeen ==
  /\ last.op = "del" /\ last.exc = "none"
  /\ last.rot > 0 /\ last.fit
  /\ LenOf(heap, Root) = ShapeKeys - 1
====
